---- MODULE Spec2Model ----
(***************************************************************************)
(* Model of the issue-management GitHub Action (TorqIT).                   *)
(*                                                                         *)
(* One run of the action: run() reads its inputs, classifies the trigger   *)
(* (extractEventInformation), extracts the linked issues from the pull     *)
(* request body (fetchLinkedIssues / fetchIssue), and for each issue       *)
(* replaces the assignees (updateAssignees) and sets the board status      *)
(* (updateIssueStatus / fetchProjectInformation / fetchIssuesInProject).   *)
(*                                                                         *)
(* Strings the code takes apart (split, match, replace, includes) are      *)
(* sequences of one-character strings; strings it only compares are TLA+   *)
(* strings.  Every remote call is one step, and may throw.                 *)
(***************************************************************************)
EXTENDS Integers, Sequences, FiniteSets, TLC

VARIABLES
    context,      \* github.context: eventName and payload of the trigger
    inputs,       \* the action's inputs as core.getInput returns them
    assignees,    \* issue store: assignee set of every existing issue
    project,      \* project store: the organization's project (or none)
    pages,        \* project store: the item pages the upstream serves
    board,        \* project store: status option of every item
    pc,           \* position of the run
    testers,      \* run(): const testers
    eventInfo,    \* run(): const eventInfo
    loopIdx,      \* run(): position of the for loop over linkedIssues
    issueNumbers, \* fetchLinkedIssues(): const issueNumbers
    tokenIdx,     \* fetchLinkedIssues(): position of the for loop
    issues,       \* fetchLinkedIssues(): const issues
    status,       \* updateIssueStatus(): its locals
    paging,       \* fetchIssuesInProject(): its locals
    calls,        \* every remote call the run issued so far, in order
    log,          \* diagnostics the run wrote so far, in order
    rerun         \* the workflow run again on the same payload: the runs
                  \* still to come and what the run before left behind

vars == <<context, inputs, assignees, project, pages, board, pc, testers,
          eventInfo, loopIdx, issueNumbers, tokenIdx, issues, status, paging,
          calls, log, rerun>>

-----------------------------------------------------------------------------
(* Bounds of the model.                                                    *)

MaxBodyLen == 4      \* characters of a pull request body
MaxTokens == 3       \* mentions of a body made of mentions only
MaxMentions == 2     \* the same, where every assignee store is explored
MaxTestersLen == 2   \* characters of the testers input
MaxFields == 2       \* fields of a project
MaxOptions == 4      \* options of a single-select field
MaxItems == 3        \* items of a project
MaxPageSize == 2     \* items the upstream puts on one page
MaxRequests == 4     \* page requests of one fetchIssuesInProject call
MaxReruns == 1       \* runs of the workflow after the first, on one payload

-----------------------------------------------------------------------------
(* Strings as sequences of characters.                                     *)

Digits == {"0", "1", "2"}

DigitValue(c) == CASE c = "0" -> 0 [] c = "1" -> 1 [] c = "2" -> 2

\* All sequences over S of length at most n.
SeqsUpTo(S, n) == UNION {[1..k -> S] : k \in 0..n}

\* String.prototype.includes
Includes(s, t) ==
    \E i \in 0..(Len(s) - Len(t)) : SubSeq(s, i + 1, i + Len(t)) = t

\* String.prototype.split with a one-character separator.
RECURSIVE Split(_, _)
Split(s, sep) ==
    IF \A i \in 1..Len(s) : s[i] # sep
    THEN <<s>>
    ELSE LET i == CHOOSE k \in 1..Len(s) :
                      s[k] = sep /\ \A m \in 1..(k - 1) : s[m] # sep
         IN <<SubSeq(s, 1, i - 1)>> \o Split(SubSeq(s, i + 1, Len(s)), sep)

\* Length of the longest run of digits of s that starts at position i.
RECURSIVE DigitRun(_, _)
DigitRun(s, i) ==
    IF i <= Len(s) /\ s[i] \in Digits THEN 1 + DigitRun(s, i + 1) ELSE 0

\* All matches of /#\d+/g in s from position i on: leftmost, greedy,
\* non-overlapping.
RECURSIVE MatchFrom(_, _)
MatchFrom(s, i) ==
    IF i > Len(s) THEN <<>>
    ELSE IF s[i] = "#" /\ DigitRun(s, i + 1) > 0
         THEN <<SubSeq(s, i, i + DigitRun(s, i + 1))>>
                  \o MatchFrom(s, i + 1 + DigitRun(s, i + 1))
         ELSE MatchFrom(s, i + 1)

\* issueNumber.replace(/[^0-9]/g, '')
StripNonDigits(s) == SelectSeq(s, LAMBDA c : c \in Digits)

\* Value of a string of decimal digits.
RECURSIVE DecimalValue(_)
DecimalValue(s) ==
    IF s = <<>> THEN 0
    ELSE 10 * DecimalValue(SubSeq(s, 1, Len(s) - 1)) + DigitValue(s[Len(s)])

\* parseInt(issueNumber): only ever applied to a non-empty string of digits.
ParseInt(s) == DecimalValue(s)

\* Number(core.getInput('projectNumber')): Number('') is 0.
ToNumber(s) == IF s = <<>> THEN 0 ELSE DecimalValue(s)

-----------------------------------------------------------------------------
(* Values of the program.                                                  *)

\* undefined / null where the value, when present, is a sequence.
Undefined == <<>>

\* enum Status
StatusReview == <<"R", "e", "v", "i", "e", "w">>
StatusInProgress == <<"I", "n", " ", "P", "r", "o", "g", "r", "e", "s", "s">>
StatusTest == <<"T", "e", "s", "t">>
Status == {StatusReview, StatusInProgress, StatusTest}

\* The field name updateIssueStatus looks for.
StatusFieldName == <<"S", "t", "a", "t", "u", "s">>

-----------------------------------------------------------------------------
(* The trigger: github.context.                                            *)

Users == {<<"a">>, <<"b">>}

\* Lists of requested reviewers: no login twice.
ReviewerLists ==
    {r \in SeqsUpTo(Users, Cardinality(Users)) :
        \A i, j \in 1..Len(r) : i # j => r[i] # r[j]}

BodyChars == {"#", "1", "2", "x"}

NullBody == [isNull |-> TRUE, text |-> <<>>]
Body(t) == [isNull |-> FALSE, text |-> t]

\* Every body of at most MaxBodyLen characters, and the absent body.
Bodies == {NullBody} \cup {Body(t) : t \in SeqsUpTo(BodyChars, MaxBodyLen)}

\* Bodies made of mentions only: of the existing issues 1 and 2 and of
\* issue 12, which does not exist.
Mention(n) ==
    CASE n = 1 -> <<"#", "1">>
      [] n = 2 -> <<"#", "2">>
      [] n = 12 -> <<"#", "1", "2">>

RECURSIVE Flatten(_)
Flatten(ss) == IF ss = <<>> THEN <<>> ELSE Head(ss) \o Flatten(Tail(ss))

MentionBodies(numbers, n) ==
    {Body(Flatten([k \in 1..Len(m) |-> Mention(m[k])])) :
        m \in SeqsUpTo(numbers, n)}

ReviewStates == {"changes_requested", "approved", "commented"}

\* pull_request event, action review_requested.
ReviewRequested(reviewers, body) ==
    [eventName |-> "pull_request", action |-> "review_requested",
     reviewState |-> "", body |-> body, requestedReviewers |-> reviewers,
     author |-> <<"b">>, sender |-> <<"b">>]

\* pull_request_review event, action submitted.
ReviewSubmitted(state, author, sender, body) ==
    [eventName |-> "pull_request_review", action |-> "submitted",
     reviewState |-> state, body |-> body, requestedReviewers |-> <<>>,
     author |-> author, sender |-> sender]

\* Any other trigger: its payload is never read.
OtherEvent(name, action, reviewers, body) ==
    [eventName |-> name, action |-> action, reviewState |-> "",
     body |-> body, requestedReviewers |-> reviewers,
     author |-> <<"b">>, sender |-> <<"b">>]

\* A push to the pull request, whose payload carries the pull request with
\* its body and requested reviewers, and an event without a pull request.
OtherEvents ==
    {OtherEvent("pull_request", "synchronize", <<<<"a">>>>, NullBody),
     OtherEvent("pull_request", "synchronize", <<<<"a">>>>, Body(<<"#", "1">>)),
     OtherEvent("issues", "opened", <<>>, NullBody)}

-----------------------------------------------------------------------------
(* The inputs: core.getInput.                                              *)

TesterChars == {"a", "b", ","}

TesterInputs == SeqsUpTo(TesterChars, MaxTestersLen)

\* The project number of the README's workflow.
ProjectNumber == 10

Inputs(t) ==
    [token |-> <<"t">>, projectNumber |-> <<"1", "0">>, testers |-> t]

\* Inputs of a workflow that leaves token or projectNumber out: getInput
\* returns the empty string for an input that is not given.
MissingInputs ==
    {[token |-> tok, projectNumber |-> num, testers |-> <<>>] :
        tok \in {<<>>, <<"t">>}, num \in {<<>>, <<"1", "0">>}}
    \ {Inputs(<<>>)}

-----------------------------------------------------------------------------
(* The issue store.                                                        *)

ExistingIssues == {1, 2}

AssigneeStores == [ExistingIssues -> SUBSET Users]

BaseAssignees == [n \in ExistingIssues |-> IF n = 1 THEN {<<"b">>} ELSE {}]

-----------------------------------------------------------------------------
(* The project store.                                                      *)

OptionBacklog == <<"B", "a", "c", "k", "l", "o", "g">>
OptionInReview == <<"I", "n", " ">> \o StatusReview
OptionTesting == StatusTest \o <<"i", "n", "g">>
OptionDone == <<"D", "o", "n", "e">>

OptionNames ==
    {OptionBacklog, StatusInProgress, OptionInReview, StatusReview,
     OptionTesting, OptionDone}

OptionLists == SeqsUpTo(OptionNames, MaxOptions)

FieldKinds == {"Title", "Status", "PlainStatus", "ItemStatus"}

FieldShapes == SeqsUpTo(FieldKinds, MaxFields)

FieldName(kind) ==
    CASE kind = "Title" -> <<"T", "i", "t", "l", "e">>
      [] kind = "Status" -> StatusFieldName
      [] kind = "PlainStatus" -> StatusFieldName
      [] kind = "ItemStatus" -> <<"I", "t", "e", "m", " ">> \o StatusFieldName

\* A field node of the schema query: ProjectV2Field carries id and name,
\* ProjectV2SingleSelectField also its options.
FieldNode(k, kind, names) ==
    [id |-> <<"F", k>>, name |-> FieldName(kind),
     hasOptions |-> kind \in {"Status", "ItemStatus"},
     options |-> IF kind \in {"Status", "ItemStatus"}
                 THEN [j \in 1..Len(names) |->
                          [id |-> <<"O", k, j>>, name |-> names[j]]]
                 ELSE <<>>]

NullProject == [isNull |-> TRUE, id |-> Undefined, fields |-> <<>>]

Project(shape, names) ==
    [isNull |-> FALSE, id |-> <<"P", ProjectNumber>>,
     fields |-> [k \in 1..Len(shape) |-> FieldNode(k, shape[k], names)]]

BaseOptions == <<StatusInProgress, OptionInReview, OptionTesting>>

BaseProject == Project(<<"Title", "Status">>, BaseOptions)

\* Every list of fields, and no project at all.
Projects ==
    {NullProject} \cup {Project(shape, BaseOptions) : shape \in FieldShapes}

\* Every list of options of the status field.
OptionProjects == {Project(<<"Status">>, names) : names \in OptionLists}

\* What a project item can be: an absent list entry, an item whose content
\* is null, an item whose content is not an issue (draft, pull request: the
\* query returns an empty object), or an item wrapping issue `number`.
\* An item wraps an issue of some repository of the organization: of
\* github.context.repo.repo, where the linked issues are fetched, or of
\* another one. The item query asks for the number of the issue only.
ThisRepository == "repo"
OtherRepository == "other"
NoRepository == ""

Item(kind, number, repo) == [kind |-> kind, number |-> number, repo |-> repo]

ItemKinds ==
    {Item("Null", 0, NoRepository), Item("NoContent", 0, NoRepository),
     Item("Other", 0, NoRepository)}
    \cup {Item("Issue", n, ThisRepository) : n \in ExistingIssues}

\* Items for the issues of the other repository with the same numbers.
ForeignItems == {Item("Issue", n, OtherRepository) : n \in ExistingIssues}

ItemNode(k, item) ==
    [id |-> <<"I", k>>, kind |-> item.kind, number |-> item.number,
     repo |-> item.repo]

\* The upstream's item list, its page size, and whether it ever reports
\* hasNextPage false.
PageStore(items, size, ends) ==
    [items |-> [k \in 1..Len(items) |-> ItemNode(k, items[k])],
     size |-> size, ends |-> ends]

PageStores ==
    {PageStore(items, size, ends) :
        items \in SeqsUpTo(ItemKinds, MaxItems),
        size \in 1..MaxPageSize, ends \in BOOLEAN}

BasePages ==
    PageStore(<<Item("Other", 0, NoRepository),
                Item("Issue", 1, ThisRepository),
                Item("Issue", 2, ThisRepository)>>, MaxPageSize, TRUE)

ItemIds == {<<"I", k>> : k \in 1..MaxItems}

-----------------------------------------------------------------------------
(* Helpers of the run.                                                     *)

Range(f) == {f[k] : k \in DOMAIN f}

\* Array.prototype.find: of the positions whose element passes the test,
\* the first, 0 when there is none.
FirstIndex(passing) ==
    IF passing = {} THEN 0
    ELSE CHOOSE k \in passing : \A m \in passing : k <= m

\* A remote call as recorded in `calls`.
Call(op, issue, ok, arg, result) ==
    [op |-> op, issue |-> issue, ok |-> ok, arg |-> arg, result |-> result]

Diagnostic(level, msg, issue) == [level |-> level, msg |-> msg, issue |-> issue]

NoEventInfo ==
    [defined |-> FALSE, toBeAssigned |-> <<>>, linkedIssues |-> <<>>,
     statusToBeSet |-> Undefined]

NoIssueNumbers == [isNull |-> TRUE, tokens |-> <<>>]

NoStatus ==
    [issueNumber |-> 0, projectNumber |-> 0, status |-> Undefined,
     project |-> NullProject, projectId |-> Undefined,
     statusFieldId |-> Undefined, statusOptionId |-> Undefined,
     projectIssueId |-> Undefined]

\* let cursor = ""
EmptyCursor == 0

NoPaging == [issues |-> <<>>, cursor |-> EmptyCursor, hasNextPage |-> FALSE]

-----------------------------------------------------------------------------
(* run()                                                                   *)

\* const testers = core.getInput('testers').split(',')
Run ==
    /\ pc = "run"
    /\ testers' = Split(inputs.testers, ",")
    /\ pc' = "extractEventInformation"
    /\ UNCHANGED rerun
    /\ UNCHANGED <<context, inputs, assignees, project, pages, board,
                   eventInfo, loopIdx, issueNumbers, tokenIdx, issues, status,
                   paging, calls, log>>

\* Mutant: the body of the loop starts at updateIssueStatus.
LoopFromStatus ==
    /\ pc = "forLoop"
    /\ pc' = IF eventInfo.defined /\ loopIdx <= Len(eventInfo.linkedIssues)
             THEN "updateIssueStatus"
             ELSE "done"
    /\ UNCHANGED rerun
    /\ UNCHANGED <<context, inputs, assignees, project, pages, board, testers,
                   eventInfo, loopIdx, issueNumbers, tokenIdx, issues, status,
                   paging, calls, log>>

\* The for loop of run(): the next linked issue, or the end of the run.
ForLoop ==
    /\ pc = "forLoop"
    /\ pc' = IF eventInfo.defined /\ loopIdx <= Len(eventInfo.linkedIssues)
             THEN "removeAssignees"
             ELSE "done"
    /\ UNCHANGED rerun
    /\ UNCHANGED <<context, inputs, assignees, project, pages, board, testers,
                   eventInfo, loopIdx, issueNumbers, tokenIdx, issues, status,
                   paging, calls, log>>

-----------------------------------------------------------------------------
(* extractEventInformation()                                               *)

\* Mutant: the action of a pull_request event is not looked at.
IsPullRequest == context.eventName = "pull_request"

IsReviewRequested ==
    context.eventName = "pull_request" /\ context.action = "review_requested"

IsReviewSubmitted == context.eventName = "pull_request_review"

\* Mutant: every review but an approval is taken for a request of changes.
IsNotApproved == IsReviewSubmitted /\ context.reviewState # "approved"

IsChangesRequested ==
    IsReviewSubmitted /\ context.reviewState = "changes_requested"

\* The branch taken on the trigger, up to the call of fetchLinkedIssues or
\* the return.
ExtractEventInformation ==
    /\ pc = "extractEventInformation"
    /\ IF IsReviewRequested \/ IsChangesRequested
       THEN /\ pc' = "fetchLinkedIssues"
            /\ UNCHANGED eventInfo
       ELSE IF IsReviewSubmitted
       THEN \* return (undefined): run() skips its loop
            /\ eventInfo' = NoEventInfo
            /\ pc' = "forLoop"
       ELSE /\ eventInfo' = [defined |-> TRUE, toBeAssigned |-> <<>>,
                             linkedIssues |-> <<>>,
                             statusToBeSet |-> Undefined]
            /\ pc' = "forLoop"
    /\ UNCHANGED rerun
    /\ UNCHANGED <<context, inputs, assignees, project, pages, board, testers,
                   loopIdx, issueNumbers, tokenIdx, issues, status, paging,
                   calls, log>>

\* Mutant: a tester is looked for inside the reviewers' logins, where the
\* empty string is always found.
StatusBySubstring(ts, reviewers) ==
    IF \E i \in 1..Len(ts), j \in 1..Len(reviewers) :
           Includes(reviewers[j], ts[i])
    THEN StatusTest
    ELSE StatusReview

\* testers.filter(t => reviewers.includes(t)).length > 0 ? Test : Review
StatusForReviewers(ts, reviewers) ==
    IF Len(SelectSeq(ts, LAMBDA t : t \in Range(reviewers))) > 0
    THEN StatusTest
    ELSE StatusReview

\* Mutant: github.context.actor, as the earlier run() assigned.
SenderToAssign(ctx) == <<ctx.sender>>

\* toBeAssigned of a changes_requested review
AuthorToAssign(ctx) == <<ctx.author>>

\* What extractEventInformation returns once fetchLinkedIssues has returned.
EventInformation(linked) ==
    IF IsReviewRequested
    THEN [defined |-> TRUE, toBeAssigned |-> context.requestedReviewers,
          linkedIssues |-> linked,
          statusToBeSet |->
              StatusForReviewers(testers, context.requestedReviewers)]
    ELSE [defined |-> TRUE, toBeAssigned |-> AuthorToAssign(context),
          linkedIssues |-> linked, statusToBeSet |-> StatusInProgress]

\* fetchLinkedIssues has returned `linked`: back in extractEventInformation
\* and from there in run().
ReturnLinkedIssues(linked) ==
    /\ eventInfo' = EventInformation(linked)
    /\ issueNumbers' = NoIssueNumbers
    /\ tokenIdx' = 1
    /\ issues' = <<>>
    /\ loopIdx' = 1
    /\ pc' = "forLoop"

-----------------------------------------------------------------------------
(* fetchLinkedIssues() and fetchIssue()                                    *)

\* Mutant: the matches as a list, empty instead of null.
MatchWithoutNull(body) ==
    [isNull |-> FALSE,
     tokens |-> IF body.isNull THEN <<>> ELSE MatchFrom(body.text, 1)]

\* pullRequestBody?.match(/#\d+/g): null for an absent body and for a body
\* without a match.
MatchIssueNumbers(body) ==
    IF body.isNull \/ MatchFrom(body.text, 1) = <<>>
    THEN NoIssueNumbers
    ELSE [isNull |-> FALSE, tokens |-> MatchFrom(body.text, 1)]

\* Mutant: only the first digit of the token is parsed.
FirstDigitOf(token) == DigitValue(StripNonDigits(token)[1])

\* The number fetchIssue asks the issue store for.
IssueNumberOf(token) == ParseInt(StripNonDigits(token))

\* Mutant: an issue already in the list is not pushed again.
PushIfNew(list, issue) ==
    IF \E k \in 1..Len(list) : list[k].number = issue.number
    THEN list
    ELSE Append(list, issue)

\* issues.push(issue)
PushIssue(list, issue) == Append(list, issue)

\* Mutant: a failed fetch ends the loop.
StopOnFailure(idx, ok, len) == IF ok THEN idx + 1 ELSE len + 1

\* The token the for loop turns to after fetchIssue has returned, with an
\* issue (ok) or with null: always the next one.
NextToken(idx, ok, len) == idx + 1

\* The match, and the return of [] when there is none.
FetchLinkedIssues ==
    /\ pc = "fetchLinkedIssues"
    /\ LET found == MatchIssueNumbers(context.body)
       IN IF found.isNull
          THEN /\ ReturnLinkedIssues(<<>>)
               /\ UNCHANGED <<status, paging>>
          ELSE /\ issueNumbers' = found
               /\ issues' = <<>>
               /\ tokenIdx' = 1
               /\ pc' = "fetchIssue"
               /\ UNCHANGED <<eventInfo, loopIdx, status, paging>>
    /\ UNCHANGED rerun
    /\ UNCHANGED <<context, inputs, assignees, project, pages, board, testers,
                   calls, log>>

\* One turn of the loop over the tokens: fetchIssue, which catches the
\* failure of octokit.rest.issues.get and returns null.  `ok` is the outcome
\* of the call; an issue that does not exist is never found.
FetchIssue ==
    /\ pc = "fetchIssue"
    /\ tokenIdx <= Len(issueNumbers.tokens)
    /\ LET parsed == StripNonDigits(issueNumbers.tokens[tokenIdx])
           n == IssueNumberOf(issueNumbers.tokens[tokenIdx])
       IN \E ok \in {b \in BOOLEAN : b => n \in ExistingIssues} :
            LET issue == [number |-> n,
                          assignees |-> IF ok THEN assignees[n] ELSE {}]
                fetched == IF parsed # <<>> /\ ok
                           THEN PushIssue(issues, issue)
                           ELSE issues
            IN /\ IF parsed = <<>>
                  THEN ~ok /\ UNCHANGED <<calls, log>>
                  ELSE /\ calls' = Append(calls,
                              Call("issues.get", n, ok, n,
                                   IF ok THEN <<issue>> ELSE <<>>))
                       /\ log' = IF ok THEN log
                                 ELSE log \o
                                      <<Diagnostic("error", "e.message", n),
                                        Diagnostic("info",
                                            "No valid issue found", n)>>
               /\ LET next == NextToken(tokenIdx, ok,
                                         Len(issueNumbers.tokens))
                  IN IF next > Len(issueNumbers.tokens)
                     THEN ReturnLinkedIssues(fetched)
                     ELSE /\ issues' = fetched
                          /\ tokenIdx' = next
                          /\ UNCHANGED <<eventInfo, loopIdx, issueNumbers,
                                         pc>>
    /\ UNCHANGED rerun
    /\ UNCHANGED <<context, inputs, assignees, project, pages, board, testers,
                   status, paging>>

-----------------------------------------------------------------------------
(* updateAssignees()                                                       *)

\* Mutant: run() in a try/catch that logs the error and returns.
CatchAndReturn(what) ==
    /\ pc' = "done"
    /\ log' = Append(log, Diagnostic("error", what, 0))

\* An uncaught error: the promise of run() is rejected, the runtime reports
\* the unhandled rejection and the run has failed.
Throw(what) ==
    /\ pc' = "failed"
    /\ log' = Append(log, Diagnostic("uncaught", what, 0))

CurrentIssue == eventInfo.linkedIssues[loopIdx]

\* Mutant: only github.context.actor is unassigned, as the earlier run() did.
SenderToRemove(issue) == {context.sender}

\* assignees: issue.assignees?.map(a => a.login)
AssigneesToRemove(issue) == issue.assignees

\* The issue store's removeAssignees and addAssignees.
RemoveFrom(store, n, logins) == [store EXCEPT ![n] = @ \ logins]

\* Mutant: the removal of the fetched assignees takes effect after the
\* addition, not before it.
AddThenRemove(store, n, logins) ==
    [store EXCEPT ![n] = (@ \cup Range(logins)) \ CurrentIssue.assignees]

\* Mutant: an addition that takes a user who is assigned already off again.
ToggleIn(store, n, logins) ==
    [store EXCEPT ![n] = (@ \ Range(logins)) \cup (Range(logins) \ @)]

AddTo(store, n, logins) == [store EXCEPT ![n] = @ \cup Range(logins)]

RemoveAssignees ==
    /\ pc = "removeAssignees"
    /\ \E ok \in BOOLEAN :
        /\ calls' = Append(calls,
               Call("issues.removeAssignees", CurrentIssue.number, ok,
                    AssigneesToRemove(CurrentIssue), <<>>))
        /\ IF ok
           THEN /\ assignees' = RemoveFrom(assignees, CurrentIssue.number,
                                           AssigneesToRemove(CurrentIssue))
                /\ pc' = "addAssignees"
                /\ UNCHANGED log
           ELSE Throw("RequestError") /\ UNCHANGED assignees
    /\ UNCHANGED rerun
    /\ UNCHANGED <<context, inputs, project, pages, board, testers, eventInfo,
                   loopIdx, issueNumbers, tokenIdx, issues, status, paging>>

AddAssignees ==
    /\ pc = "addAssignees"
    /\ \E ok \in BOOLEAN :
        /\ calls' = Append(calls,
               Call("issues.addAssignees", CurrentIssue.number, ok,
                    eventInfo.toBeAssigned, <<>>))
        /\ IF ok
           THEN /\ assignees' = AddTo(assignees, CurrentIssue.number,
                                      eventInfo.toBeAssigned)
                /\ pc' = "updateIssueStatus"
                /\ UNCHANGED log
           ELSE Throw("RequestError") /\ UNCHANGED assignees
    /\ UNCHANGED rerun
    /\ UNCHANGED <<context, inputs, project, pages, board, testers, eventInfo,
                   loopIdx, issueNumbers, tokenIdx, issues, status, paging>>

-----------------------------------------------------------------------------
(* updateIssueStatus(), fetchProjectInformation(), fetchIssuesInProject()  *)

\* What the project store answers for a project number.
ProjectByNumber(n) == IF n = ProjectNumber THEN project ELSE NullProject

\* Mutant: the field is looked for as the option is, by x.name.includes.
ContainsStatus(x) == Includes(x.name, StatusFieldName)

\* project?.fields.nodes?.find(x => x?.name === 'Status'): its test and its
\* position.
IsStatusField(x) == x.name = StatusFieldName

StatusFieldIndex(p) ==
    IF p.isNull THEN 0
    ELSE FirstIndex({k \in 1..Len(p.fields) : IsStatusField(p.fields[k])})

\* Mutant: x.name === status
OptionEquals(x, label) == x.name = label

\* statusField?.options.find(x => x.name.includes(status)): its test and
\* its position.
OptionMatches(x, label) == Includes(x.name, label)

StatusOptionIndex(options, label) ==
    FirstIndex({j \in 1..Len(options) : OptionMatches(options[j], label)})

\* statusField?.options.find(...)?.id
StatusOptionId(options, label) ==
    IF StatusOptionIndex(options, label) = 0
    THEN Undefined
    ELSE options[StatusOptionIndex(options, label)].id

\* The page of items after `cursor`: hasNextPage is false on the last page
\* of an upstream that ends, and never false on one that does not.
ServePage(cursor) ==
    LET n == Len(pages.items)
        e == IF cursor + pages.size < n THEN cursor + pages.size ELSE n
    IN [nodes |-> SubSeq(pages.items, cursor + 1, e),
        endCursor |-> e,
        hasNextPage |-> (e < n \/ ~pages.ends)]

\* Mutant: issues = nodes, the page replaces what was accumulated.
Overwrite(list, nodes) == nodes

\* issues = [...issues, ...nodes]
Accumulate(list, nodes) == list \o nodes

\* cursor = pageInfo.endCursor
NextCursor(page) == page.endCursor

\* (x?.content as Issue).number throws on an absent entry and on an item
\* without content.
ContentThrows(x) == x.kind \in {"Null", "NoContent"}

IsIssueItem(x, n) == x.kind = "Issue" /\ x.number = n

\* Mutant: a scan that keeps the last item of the issue instead of stopping
\* at the first.
LastProjectIssueIndex(list, n) ==
    LET hits == {k \in 1..Len(list) : IsIssueItem(list[k], n)}
    IN IF hits = {} THEN 0 ELSE CHOOSE k \in hits : \A m \in hits : m <= k

\* issues.find(x => (x?.content as Issue).number === issueNumber): the
\* position where the scan stops, 0 when it reaches the end.
ProjectIssueIndex(list, n) ==
    FirstIndex({k \in 1..Len(list) :
                   ContentThrows(list[k]) \/ IsIssueItem(list[k], n)})

\* if (statusFieldId && statusOptionId && projectId && projectIssueId)
AllResolved(st) ==
    /\ st.statusFieldId # Undefined
    /\ st.statusOptionId # Undefined
    /\ st.projectId # Undefined
    /\ st.projectIssueId # Undefined

\* Mutant: the ids of the project and of the field change places.
InputWithIdsSwapped(st) ==
    [fieldId |-> st.projectId, itemId |-> st.projectIssueId,
     projectId |-> st.statusFieldId, singleSelectOptionId |-> st.statusOptionId]

\* UpdateProjectV2ItemFieldValueInput
UpdateIssueInput(st) ==
    [fieldId |-> st.statusFieldId, itemId |-> st.projectIssueId,
     projectId |-> st.projectId, singleSelectOptionId |-> st.statusOptionId]

SkippedMessage == "Error finding project or issue information"

\* Entry of updateIssueStatus up to the call of fetchIssuesInProject: the
\* schema query and the identities read off its answer.
UpdateIssueStatus ==
    /\ pc = "updateIssueStatus"
    /\ LET num == ToNumber(inputs.projectNumber)
           answer == ProjectByNumber(num)
           k == StatusFieldIndex(answer)
       IN \E ok \in BOOLEAN :
            /\ calls' = Append(calls,
                   Call("getProjectInformation", CurrentIssue.number, ok,
                        num, IF ok THEN <<answer>> ELSE <<>>))
            /\ IF ~ok
               THEN Throw("GraphqlResponseError") /\ UNCHANGED <<status, paging>>
               ELSE IF k # 0 /\ ~answer.fields[k].hasOptions
               THEN \* statusField.options is undefined
                    Throw("TypeError") /\ UNCHANGED <<status, paging>>
               ELSE /\ status' =
                        [issueNumber |-> CurrentIssue.number,
                         projectNumber |-> num,
                         status |-> eventInfo.statusToBeSet,
                         project |-> answer,
                         projectId |-> answer.id,
                         statusFieldId |->
                             IF k = 0 THEN Undefined ELSE answer.fields[k].id,
                         statusOptionId |->
                             IF k = 0 THEN Undefined
                             ELSE StatusOptionId(answer.fields[k].options,
                                                 eventInfo.statusToBeSet),
                         projectIssueId |-> Undefined]
                    /\ paging' = [issues |-> <<>>, cursor |-> EmptyCursor,
                                  hasNextPage |-> TRUE]
                    /\ pc' = "fetchIssuesInProject"
                    /\ UNCHANGED log
    /\ UNCHANGED rerun
    /\ UNCHANGED <<context, inputs, assignees, project, pages, board, testers,
                   eventInfo, loopIdx, issueNumbers, tokenIdx, issues>>

\* The page requests of the running fetchIssuesInProject call.
RECURSIVE PageCalls(_)
PageCalls(cs) ==
    IF cs = <<>> \/ cs[Len(cs)].op # "getIssues" THEN <<>>
    ELSE Append(PageCalls(SubSeq(cs, 1, Len(cs) - 1)), cs[Len(cs)])

\* One turn of the while loop of fetchIssuesInProject.
FetchIssuesInProject ==
    /\ pc = "fetchIssuesInProject"
    /\ paging.hasNextPage
    /\ Len(PageCalls(calls)) < MaxRequests
    /\ LET found == ~ProjectByNumber(status.projectNumber).isNull
           page == ServePage(paging.cursor)
       IN \E ok \in BOOLEAN :
            /\ calls' = Append(calls,
                   Call("getIssues", status.issueNumber, ok, paging.cursor,
                        IF ok /\ found THEN <<page>> ELSE <<>>))
            /\ IF ~ok
               THEN Throw("GraphqlResponseError") /\ UNCHANGED paging
               ELSE IF ~found
               THEN \* projectV2 is null: nodes is undefined and not iterable
                    Throw("TypeError") /\ UNCHANGED paging
               ELSE /\ paging' = [issues |-> Accumulate(paging.issues, page.nodes),
                                  cursor |-> NextCursor(page),
                                  hasNextPage |-> page.hasNextPage]
                    /\ pc' = IF page.hasNextPage THEN "fetchIssuesInProject"
                             ELSE "findProjectIssue"
                    /\ UNCHANGED log
    /\ UNCHANGED rerun
    /\ UNCHANGED <<context, inputs, assignees, project, pages, board, testers,
                   eventInfo, loopIdx, issueNumbers, tokenIdx, issues, status>>

\* Back in updateIssueStatus: the item of the issue, and the decision.
FindProjectIssue ==
    /\ pc = "findProjectIssue"
    /\ LET k == ProjectIssueIndex(paging.issues, status.issueNumber)
           st == [status EXCEPT !.projectIssueId =
                      IF k = 0 THEN Undefined ELSE paging.issues[k].id]
       IN IF k # 0 /\ ContentThrows(paging.issues[k])
          THEN Throw("TypeError") /\ UNCHANGED <<status, loopIdx>>
          ELSE /\ status' = st
               /\ IF AllResolved(st)
                  THEN pc' = "mutate" /\ UNCHANGED <<log, loopIdx>>
                  ELSE /\ log' = Append(log,
                              Diagnostic("error", SkippedMessage,
                                         status.issueNumber))
                       /\ loopIdx' = loopIdx + 1
                       /\ pc' = "forLoop"
    /\ UNCHANGED rerun
    /\ UNCHANGED <<context, inputs, assignees, project, pages, board, testers,
                   eventInfo, issueNumbers, tokenIdx, issues, paging, calls>>

\* The mutation updateProjectV2ItemFieldValue.
\* Mutant: a failed mutation gives the issue back the assignees it was
\* fetched with.
MutateOrRollBack ==
    /\ pc = "mutate"
    /\ \E ok \in BOOLEAN :
        /\ calls' = Append(calls,
               Call("updateProjectV2ItemFieldValue", status.issueNumber, ok,
                    UpdateIssueInput(status), <<>>))
        /\ IF ok
           THEN /\ board' = [board EXCEPT ![status.projectIssueId] =
                                 status.statusOptionId]
                /\ log' = Append(log,
                       Diagnostic("info", "Successfully updated issue status",
                                  status.issueNumber))
                /\ loopIdx' = loopIdx + 1
                /\ pc' = "forLoop"
                /\ UNCHANGED assignees
           ELSE /\ Throw("GraphqlResponseError")
                /\ assignees' = [assignees EXCEPT ![status.issueNumber] =
                                     CurrentIssue.assignees]
                /\ UNCHANGED <<board, loopIdx>>
    /\ UNCHANGED rerun
    /\ UNCHANGED <<context, inputs, project, pages, testers, eventInfo,
                   issueNumbers, tokenIdx, issues, status, paging>>

Mutate ==
    /\ pc = "mutate"
    /\ \E ok \in BOOLEAN :
        /\ calls' = Append(calls,
               Call("updateProjectV2ItemFieldValue", status.issueNumber, ok,
                    UpdateIssueInput(status), <<>>))
        /\ IF ok
           THEN /\ board' = [board EXCEPT ![status.projectIssueId] =
                                 status.statusOptionId]
                /\ log' = Append(log,
                       Diagnostic("info", "Successfully updated issue status",
                                  status.issueNumber))
                /\ loopIdx' = loopIdx + 1
                /\ pc' = "forLoop"
           ELSE Throw("GraphqlResponseError") /\ UNCHANGED <<board, loopIdx>>
    /\ UNCHANGED rerun
    /\ UNCHANGED <<context, inputs, assignees, project, pages, testers,
                   eventInfo, issueNumbers, tokenIdx, issues, status, paging>>

-----------------------------------------------------------------------------
(* The runs explored.                                                      *)

\* A run starts with the trigger, the inputs and the stores given, and
\* nothing done yet.
\* No run before this one, and `left` runs to come after it.
FirstRun(left) ==
    [left |-> left, ran |-> FALSE, linked |-> <<>>,
     assignees |-> <<>>, board |-> <<>>]

StartOf(ctx, inp, store, proj, pgs, left) ==
    /\ context = ctx
    /\ inputs = inp
    /\ assignees = store
    /\ project = proj
    /\ pages = pgs
    /\ board = [i \in ItemIds |-> Undefined]
    /\ pc = "run"
    /\ testers = <<>>
    /\ eventInfo = NoEventInfo
    /\ loopIdx = 1
    /\ issueNumbers = NoIssueNumbers
    /\ tokenIdx = 1
    /\ issues = <<>>
    /\ status = NoStatus
    /\ paging = NoPaging
    /\ calls = <<>>
    /\ log = <<>>
    /\ rerun = FirstRun(left)

Start(ctx, inp, store, proj, pgs) == StartOf(ctx, inp, store, proj, pgs, 0)

\* Every trigger and every testers input, around a short body.
TriggerBodies == {NullBody, Body(Mention(1))}

Triggers ==
    {ReviewRequested(r, b) : r \in ReviewerLists, b \in TriggerBodies}
    \cup {ReviewSubmitted(s, a, u, b) :
              s \in ReviewStates, a \in Users, u \in Users, b \in TriggerBodies}
    \cup OtherEvents

InitTriggers ==
    \E ctx \in Triggers, t \in TesterInputs :
        Start(ctx, Inputs(t), BaseAssignees, BaseProject, BasePages)

\* The three triggers that lead to the three target statuses.
StatusTriggers(b) ==
    {<<ReviewRequested(<<<<"a">>>>, b), Inputs(<<>>)>>,
     <<ReviewRequested(<<<<"a">>>>, b), Inputs(<<"a">>)>>,
     <<ReviewSubmitted("changes_requested", <<"b">>, <<"a">>, b), Inputs(<<>>)>>}

\* Every body.
InitBodies ==
    \E b \in Bodies \cup MentionBodies({1, 2, 12}, MaxTokens) :
        \E t \in StatusTriggers(b) :
            Start(t[1], t[2], BaseAssignees, BaseProject, BasePages)

\* Every assignee store, around the bodies made of mentions.
InitAssignees ==
    \E store \in AssigneeStores, b \in MentionBodies({1, 2}, MaxMentions),
       r \in ReviewerLists :
        \E ctx \in {ReviewRequested(r, b),
                    ReviewSubmitted("changes_requested", <<"b">>, <<"a">>, b)} :
            Start(ctx, Inputs(<<>>), store, BaseProject, BasePages)

\* Every project schema.
InitProjects ==
    \E proj \in Projects \cup OptionProjects :
        \E t \in StatusTriggers(Body(Mention(1))) :
            Start(t[1], t[2], BaseAssignees, proj, BasePages)

\* Every item list and paging behaviour of the upstream.
InitPages ==
    \E pgs \in PageStores :
        Start(ReviewRequested(<<<<"a">>>>, Body(Mention(1))), Inputs(<<>>),
              BaseAssignees, BaseProject, pgs)

\* A workflow that leaves a required input out.
InitInputs ==
    \E inp \in MissingInputs :
        \E t \in StatusTriggers(Body(Mention(1))) :
            Start(t[1], inp, BaseAssignees, BaseProject, BasePages)

\* The workflow run again on its payload ("Re-run jobs"), for every assignee
\* store: each run is a new process and starts run() anew, on the issues and
\* the board the run before left behind.
InitRerun ==
    \E store \in AssigneeStores, r \in ReviewerLists :
        \E ctx \in {ReviewRequested(r, Body(Mention(1) \o Mention(2))),
                    ReviewSubmitted("changes_requested", <<"b">>, <<"a">>,
                                    Body(Mention(1) \o Mention(2)))} :
            StartOf(ctx, Inputs(<<>>), store, BaseProject, BasePages,
                    MaxReruns)

Rerun ==
    /\ pc = "done"
    /\ rerun.left > 0
    /\ rerun' = [left |-> rerun.left - 1, ran |-> TRUE,
                 linked |-> [i \in 1..Len(eventInfo.linkedIssues) |->
                                eventInfo.linkedIssues[i].number],
                 assignees |-> assignees, board |-> board]
    /\ pc' = "run"
    /\ testers' = <<>>
    /\ eventInfo' = NoEventInfo
    /\ loopIdx' = 1
    /\ issueNumbers' = NoIssueNumbers
    /\ tokenIdx' = 1
    /\ issues' = <<>>
    /\ status' = NoStatus
    /\ paging' = NoPaging
    /\ calls' = <<>>
    /\ log' = <<>>
    /\ UNCHANGED <<context, inputs, assignees, project, pages, board>>

\* A project of the organization with items for the issues of two
\* repositories, around the linked issue 1.
InitRepositories ==
    \E items \in SeqsUpTo(ForeignItems
                              \cup {Item("Issue", 1, ThisRepository)},
                          MaxItems) :
        Start(ReviewRequested(<<<<"a">>>>, Body(Mention(1))), Inputs(<<>>),
              BaseAssignees, BaseProject,
              PageStore(items, MaxPageSize, TRUE))

Init ==
    \/ InitTriggers
    \/ InitBodies
    \/ InitAssignees
    \/ InitProjects
    \/ InitPages
    \/ InitInputs
    \/ InitRerun
    \/ InitRepositories

Next ==
    \/ Run
    \/ ExtractEventInformation
    \/ FetchLinkedIssues
    \/ FetchIssue
    \/ ForLoop
    \/ RemoveAssignees
    \/ AddAssignees
    \/ UpdateIssueStatus
    \/ FetchIssuesInProject
    \/ FindProjectIssue
    \/ Mutate
    \/ Rerun

Spec == Init /\ [][Next]_vars

-----------------------------------------------------------------------------
(* Properties.                                                             *)

Last(seq) == seq[Len(seq)]

IsMutation(c) == c.op = "updateProjectV2ItemFieldValue"

\* The issue fetches issued so far, in order.
FetchCalls == SelectSeq(calls, LAMBDA c : c.op = "issues.get")

\* The numbers of the tokens of a body, in order of appearance.
TokenNumbers(body) ==
    IF body.isNull THEN <<>>
    ELSE [i \in 1..Len(MatchFrom(body.text, 1)) |->
             IssueNumberOf(MatchFrom(body.text, 1)[i])]

\* fetchLinkedIssues was called and has returned.
ExtractionReturned ==
    /\ \/ /\ context.eventName = "pull_request"
          /\ context.action = "review_requested"
       \/ /\ context.eventName = "pull_request_review"
          /\ context.reviewState = "changes_requested"
    /\ eventInfo.defined

\* A call of updateIssueStatus is over and `status` holds its locals: it
\* has returned, or it has thrown on a page that was served to it.
StatusEnded ==
    /\ status.issueNumber # 0
    /\ \/ pc = "forLoop"
       \/ pc = "failed" /\ Last(calls).op = "getIssues" /\ Last(calls).ok

\* C1: the mutation is issued only with the four identities resolved; a call
\* of updateIssueStatus that leaves one of them unresolved issues no mutation
\* and logs the diagnostic, and one that resolves all four issues the
\* mutation for exactly them.
C1_UnresolvedSkipsWithDiagnostic ==
    /\ \A i \in 1..Len(calls) :
           IsMutation(calls[i]) =>
               /\ calls[i].arg.fieldId # Undefined
               /\ calls[i].arg.singleSelectOptionId # Undefined
               /\ calls[i].arg.projectId # Undefined
               /\ calls[i].arg.itemId # Undefined
    /\ StatusEnded =>
           IF /\ status.statusFieldId # Undefined
              /\ status.statusOptionId # Undefined
              /\ status.projectId # Undefined
              /\ status.projectIssueId # Undefined
           THEN /\ IsMutation(Last(calls))
                /\ Last(calls).arg =
                       [fieldId |-> status.statusFieldId,
                        itemId |-> status.projectIssueId,
                        projectId |-> status.projectId,
                        singleSelectOptionId |-> status.statusOptionId]
           ELSE /\ ~IsMutation(Last(calls))
                /\ Last(log) = Diagnostic("error", SkippedMessage,
                                          status.issueNumber)

\* The nodes of the pages a sequence of page requests was answered with.
RECURSIVE NodesOf(_)
NodesOf(cs) ==
    IF cs = <<>> THEN <<>>
    ELSE NodesOf(SubSeq(cs, 1, Len(cs) - 1)) \o Last(cs).result[1].nodes

\* C2: fetchIssuesInProject accumulates the items of its pages in order,
\* asks for the first page with the empty cursor and for every later page
\* with the endCursor of the answer before, and returns after the first page
\* whose hasNextPage is false: from an upstream that ends it returns the
\* upstream's item list, nothing dropped and nothing twice.
C2_PagesConcatenated ==
    pc \in {"fetchIssuesInProject", "findProjectIssue"} =>
        LET reqs == PageCalls(calls)
        IN /\ paging.issues = NodesOf(reqs)
           /\ \A i \in 1..Len(reqs) :
                  /\ reqs[i].arg = IF i = 1 THEN EmptyCursor
                                   ELSE reqs[i - 1].result[1].endCursor
                  /\ i < Len(reqs) => reqs[i].result[1].hasNextPage
           /\ pc = "fetchIssuesInProject" =>
                  reqs = <<>> \/ Last(reqs).result[1].hasNextPage
           /\ pc = "findProjectIssue" =>
                  /\ reqs # <<>>
                  /\ ~Last(reqs).result[1].hasNextPage
                  /\ pages.ends /\ paging.issues = pages.items

\* C2 happens: three pages (hasNextPage true, true, false) were accumulated.
C2_Witness ==
    /\ pc = "findProjectIssue"
    /\ Len(PageCalls(calls)) = 3
    /\ Len(paging.issues) = 3
    /\ \A i \in 1..3 : paging.issues[i].id = <<"I", i>>

\* C3: a failed issue fetch never ends the run and never ends the batch:
\* it is logged, and every token of the body is fetched, in order, whatever
\* the fetches before it returned.
C3_FetchFailureSkipsToken ==
    /\ pc = "failed" => Last(calls).op # "issues.get"
    /\ \A i \in 1..Len(calls) :
           (calls[i].op = "issues.get" /\ ~calls[i].ok) =>
               \E k \in 1..Len(log) :
                   log[k] = Diagnostic("info", "No valid issue found",
                                       calls[i].issue)
    /\ pc = "fetchIssue" =>
           /\ Len(FetchCalls) = tokenIdx - 1
           /\ \A i \in 1..Len(FetchCalls) :
                  FetchCalls[i].issue = TokenNumbers(context.body)[i]
    /\ ExtractionReturned =>
           [i \in 1..Len(FetchCalls) |-> FetchCalls[i].issue]
               = TokenNumbers(context.body)

\* C3 happens: of the tokens #1, #12, #2 the fetch of #12 failed and issues
\* 1 and 2 were returned.
C3_Witness ==
    /\ ExtractionReturned
    /\ TokenNumbers(context.body) = <<1, 12, 2>>
    /\ ~FetchCalls[2].ok
    /\ Len(eventInfo.linkedIssues) = 2
    /\ eventInfo.linkedIssues[1].number = 1
    /\ eventInfo.linkedIssues[2].number = 2

\* C4: the issues fetchLinkedIssues returns are those of the successful
\* fetches, one entry a fetch, in the order of the fetches.
C4_LinkedIssuesInOrder ==
    LET fetched == SelectSeq(FetchCalls, LAMBDA c : c.ok)
    IN /\ pc = "fetchIssue" =>
              [i \in 1..Len(issues) |-> issues[i].number]
                  = [i \in 1..Len(fetched) |-> fetched[i].issue]
       /\ ExtractionReturned =>
              [i \in 1..Len(eventInfo.linkedIssues) |->
                      eventInfo.linkedIssues[i].number]
                  = [i \in 1..Len(fetched) |-> fetched[i].issue]

\* C4 happens: the body #2#1#2 gave issues 2, 1, 2.
C4_Witness ==
    /\ ExtractionReturned
    /\ TokenNumbers(context.body) = <<2, 1, 2>>
    /\ [i \in 1..Len(eventInfo.linkedIssues) |->
            eventInfo.linkedIssues[i].number] = <<2, 1, 2>>

\* The text has no '#' followed by a digit.
HasNoToken(text) ==
    ~\E i \in 1..(Len(text) - 1) : text[i] = "#" /\ text[i + 1] \in Digits

\* fetchLinkedIssues has been called and has taken its first step.
PastMatch ==
    /\ \/ /\ context.eventName = "pull_request"
          /\ context.action = "review_requested"
       \/ /\ context.eventName = "pull_request_review"
          /\ context.reviewState = "changes_requested"
    /\ pc \notin {"run", "extractEventInformation", "fetchLinkedIssues"}

\* C5: for a body that is absent or has no token, fetchLinkedIssues returns
\* the empty list without an error and without a fetch, and the run ends
\* without any remote call.
C5_NoTokenNoCall ==
    (PastMatch /\ (context.body.isNull \/ HasNoToken(context.body.text))) =>
        /\ pc \in {"forLoop", "done"}
        /\ eventInfo.defined
        /\ eventInfo.linkedIssues = <<>>
        /\ calls = <<>>
        /\ log = <<>>

\* C5 happens: a run on a body with a '#' but no token has ended.
C5_Witness ==
    /\ pc = "done"
    /\ PastMatch
    /\ ~context.body.isNull
    /\ \E i \in 1..Len(context.body.text) : context.body.text[i] = "#"
    /\ HasNoToken(context.body.text)

\* The login stands between two commas (or ends) of the testers input.
IsConfiguredTester(login, raw) ==
    \E i \in 1..Len(raw) :
        LET j == i + Len(login) - 1
        IN /\ login # <<>>
           /\ j <= Len(raw)
           /\ SubSeq(raw, i, j) = login
           /\ i = 1 \/ raw[i - 1] = ","
           /\ j = Len(raw) \/ raw[j + 1] = ","

\* C6: on review_requested the users to assign are the requested reviewers
\* and the status is Test exactly when a requested reviewer is one of the
\* configured testers, Review otherwise; with the testers input left empty
\* it is Review whoever is requested.
C6_ReviewRequestedTarget ==
    (/\ context.eventName = "pull_request"
     /\ context.action = "review_requested"
     /\ eventInfo.defined) =>
        LET tester == \E i \in 1..Len(context.requestedReviewers) :
                          IsConfiguredTester(context.requestedReviewers[i],
                                             inputs.testers)
        IN /\ eventInfo.toBeAssigned = context.requestedReviewers
           /\ eventInfo.statusToBeSet =
                  IF tester THEN StatusTest ELSE StatusReview
           /\ inputs.testers = <<>> => eventInfo.statusToBeSet = StatusReview
           /\ \A i \in 1..Len(calls) :
                  calls[i].op = "issues.addAssignees" =>
                      calls[i].arg = context.requestedReviewers

\* C6 happens: reviewers a and b were requested, the testers input names b
\* after an empty entry, and the status is Test.
C6_Witness ==
    /\ context.action = "review_requested"
    /\ eventInfo.defined
    /\ context.requestedReviewers = <<<<"a">>, <<"b">>>>
    /\ inputs.testers = <<",", "b">>
    /\ eventInfo.statusToBeSet = StatusTest

\* C7: on a changes_requested review every linked issue is assigned to the
\* author of the pull request, whoever submitted the review, and the status
\* is In Progress.
C7_ChangesRequestedTarget ==
    (/\ context.eventName = "pull_request_review"
     /\ context.reviewState = "changes_requested"
     /\ eventInfo.defined) =>
        /\ eventInfo.toBeAssigned = <<context.author>>
        /\ eventInfo.statusToBeSet = StatusInProgress
        /\ \A i \in 1..Len(calls) :
               /\ calls[i].op = "issues.addAssignees" =>
                      calls[i].arg = <<context.author>>
               /\ calls[i].op = "updateProjectV2ItemFieldValue" =>
                      \E k \in 1..Len(status.project.fields) :
                          \E j \in 1..Len(status.project.fields[k].options) :
                              LET o == status.project.fields[k].options[j]
                              IN /\ o.id = calls[i].arg.singleSelectOptionId
                                 /\ Includes(o.name, StatusInProgress)
        /\ pc = "done" =>
               \A i \in 1..Len(eventInfo.linkedIssues) :
                   context.author
                       \in assignees[eventInfo.linkedIssues[i].number]

\* C7 happens: a run on a review by someone else than the author has ended
\* with the author assigned and the status moved.
C7_Witness ==
    /\ pc = "done"
    /\ context.reviewState = "changes_requested"
    /\ context.author # context.sender
    /\ \E i \in 1..Len(calls) :
           calls[i].op = "issues.addAssignees" /\ calls[i].ok
    /\ \E i \in 1..Len(calls) :
           calls[i].op = "updateProjectV2ItemFieldValue" /\ calls[i].ok

\* C8: a review with another verdict than changes_requested makes no remote
\* call of any kind and the run ends without an error.
C8_OtherVerdictNoCall ==
    (/\ context.eventName = "pull_request_review"
     /\ context.reviewState # "changes_requested") =>
        /\ calls = <<>>
        /\ log = <<>>
        /\ pc \in {"run", "extractEventInformation", "forLoop", "done"}
        /\ ~eventInfo.defined

\* C8 happens: a run on an approval of a pull request that mentions an
\* issue has ended.
C8_Witness ==
    /\ pc = "done"
    /\ context.eventName = "pull_request_review"
    /\ context.reviewState = "approved"
    /\ TokenNumbers(context.body) = <<1>>

\* C9: when the run has ended without an error the assignees of every linked
\* issue are the users to assign and nobody else.
C9_AssigneesAreTarget ==
    (pc = "done" /\ eventInfo.defined) =>
        \A i \in 1..Len(eventInfo.linkedIssues) :
            assignees[eventInfo.linkedIssues[i].number]
                = {eventInfo.toBeAssigned[j] :
                       j \in 1..Len(eventInfo.toBeAssigned)}

\* C9 happens: an issue that had a and b assigned ends with a alone, a being
\* the one to assign.
C9_Witness ==
    /\ pc = "done"
    /\ eventInfo.toBeAssigned = <<<<"a">>>>
    /\ \E i \in 1..Len(eventInfo.linkedIssues) :
           /\ eventInfo.linkedIssues[i].assignees = {<<"a">>, <<"b">>}
           /\ assignees[eventInfo.linkedIssues[i].number] = {<<"a">>}

\* The options of the first field named Status in the project a call of
\* updateIssueStatus was answered with.
StatusOptions ==
    LET named == {k \in 1..Len(status.project.fields) :
                     status.project.fields[k].name = <<"S", "t", "a", "t", "u", "s">>}
        first == CHOOSE k \in named : \A m \in named : k <= m
    IN IF named = {} THEN <<>> ELSE status.project.fields[first].options

\* C10: the option chosen is the first option of the field, in the field's
\* order, whose name contains the label; none is chosen when no name
\* contains it.
C10_FirstContainingOption ==
    (status.issueNumber # 0 /\ StatusOptions # <<>>) =>
        LET containing == {j \in 1..Len(StatusOptions) :
                              Includes(StatusOptions[j].name, status.status)}
        IN IF containing = {}
           THEN status.statusOptionId = Undefined
           ELSE \E j \in containing :
                    /\ \A m \in containing : j <= m
                    /\ status.statusOptionId = StatusOptions[j].id

\* C10 happens: of Backlog, In Progress, In Review, Done the label Review
\* chose In Review.
C10_Witness ==
    /\ status.issueNumber # 0
    /\ status.status = StatusReview
    /\ [j \in 1..Len(StatusOptions) |-> StatusOptions[j].name]
           = <<OptionBacklog, StatusInProgress, OptionInReview, OptionDone>>
    /\ status.statusOptionId = StatusOptions[3].id

\* The fields of the project a call of updateIssueStatus was answered with
\* whose name is Status, and those whose name contains it.
FieldsNamedStatus ==
    {k \in 1..Len(status.project.fields) :
        status.project.fields[k].name = <<"S", "t", "a", "t", "u", "s">>}

FieldsContainingStatus ==
    {k \in 1..Len(status.project.fields) :
        Includes(status.project.fields[k].name,
                 <<"S", "t", "a", "t", "u", "s">>)}

C12_AbsentSchemaIsNotFatal ==
    (status.issueNumber # 0
     /\ inputs.projectNumber # <<>>
     /\ (status.project.isNull \/ FieldsNamedStatus = {})) =>
        /\ pc # "mutate"
        /\ ~IsMutation(Last(calls))
        /\ pc = "failed" => ~Last(calls).ok

\* The items accumulated by fetchIssuesInProject that wrap the issue.
ItemsOfIssue(n) ==
    {k \in 1..Len(paging.issues) :
        paging.issues[k].kind = "Issue" /\ paging.issues[k].number = n}

\* The lookup of the issue's item in the accumulated list is over.
LookupOver ==
    /\ status.issueNumber # 0
    /\ ~status.project.isNull
    /\ calls # <<>>
    /\ Last(calls).op = "getIssues"
    /\ Last(calls).ok
    /\ pc \notin {"fetchIssuesInProject", "findProjectIssue"}

\* C13: the lookup raises no error on items that wrap no issue (drafts, pull
\* requests, absent content, absent entries) and finds the issue's item
\* also behind them.
C13_NonIssueItemsSkipped ==
    LookupOver =>
        /\ pc # "failed"
        /\ ItemsOfIssue(status.issueNumber) # {} =>
               \E k \in ItemsOfIssue(status.issueNumber) :
                   status.projectIssueId = paging.issues[k].id

\* C14: the item of the mutation is the first item, in the order the pages
\* were accumulated, that wraps the issue; when no item wraps it the item
\* identity is absent and no mutation is issued.
C14_FirstItemOfIssue ==
    /\ (LookupOver /\ pc # "failed") =>
           IF ItemsOfIssue(status.issueNumber) = {}
           THEN status.projectIssueId = Undefined /\ pc # "mutate"
           ELSE \E k \in ItemsOfIssue(status.issueNumber) :
                    /\ \A m \in ItemsOfIssue(status.issueNumber) : k <= m
                    /\ status.projectIssueId = paging.issues[k].id
    /\ (calls # <<>> /\ IsMutation(Last(calls))) =>
           \E k \in ItemsOfIssue(Last(calls).issue) :
               /\ \A m \in ItemsOfIssue(Last(calls).issue) : k <= m
               /\ Last(calls).arg.itemId = paging.issues[k].id

\* C14 happens: the issue has two items behind a draft, and the mutation was
\* issued for the first of the two.
C14_Witness ==
    /\ calls # <<>>
    /\ IsMutation(Last(calls))
    /\ Last(calls).ok
    /\ paging.issues[1].kind = "Other"
    /\ ItemsOfIssue(status.issueNumber) = {2, 3}
    /\ Last(calls).arg.itemId = paging.issues[2].id

\* C15: a failed remote call other than the issue fetch is not caught: it is
\* the last call of the run, and the run has failed on it.
C15_FailedCallEndsRun ==
    \A i \in 1..Len(calls) :
        (~calls[i].ok /\ calls[i].op # "issues.get") =>
            /\ i = Len(calls)
            /\ pc = "failed"
            /\ Last(log).level = "uncaught"

\* C15 happens: of two linked issues the first one's addAssignees failed, and
\* nothing was called for the second.
C15_Witness ==
    /\ pc = "failed"
    /\ Len(eventInfo.linkedIssues) = 2
    /\ eventInfo.linkedIssues[2].number # eventInfo.linkedIssues[1].number
    /\ Last(calls).op = "issues.addAssignees"
    /\ ~Last(calls).ok
    /\ Last(calls).issue = eventInfo.linkedIssues[1].number

\* C16: a run that lacks its token or its projectNumber issues no remote
\* call at all.
C16_MissingInputNoCall ==
    (inputs.token = <<>> \/ inputs.projectNumber = <<>>) => calls = <<>>

\* C17: against an upstream that never reports hasNextPage false the loop of
\* fetchIssuesInProject asks for another page only while it stays below a
\* maximum number of requests.
C17_PaginationBounded ==
    (~pages.ends /\ pc = "fetchIssuesInProject" /\ paging.hasNextPage) =>
        Len(PageCalls(calls)) < MaxRequests

\* C18: in a run with a projectNumber input, a call of updateIssueStatus
\* that leaves the field, the option, the project or the item unresolved
\* does not fail the run, and a run that ends has updated the assignees of
\* every linked issue.
C18_SkipIsNotFailure ==
    /\ (/\ status.issueNumber # 0
        /\ inputs.projectNumber # <<>>
        /\ \/ status.statusFieldId = Undefined
           \/ status.statusOptionId = Undefined
           \/ status.projectId = Undefined
           \/ status.projectIssueId = Undefined
        /\ pc = "failed") => ~Last(calls).ok
    /\ (pc = "done" /\ eventInfo.defined) =>
           Len(SelectSeq(calls, LAMBDA c : c.op = "issues.addAssignees"))
               = Len(eventInfo.linkedIssues)

\* The calls of one operation for one issue.
CallsFor(op, n) == SelectSeq(calls, LAMBDA c : c.op = op /\ c.issue = n)

\* The mentions of an issue among the linked issues.
MentionsOf(n) ==
    {i \in 1..Len(eventInfo.linkedIssues) :
        eventInfo.linkedIssues[i].number = n}

\* C20: every mention of an issue has its own assignee update and its own
\* status update, and after each of them, the first as the later ones, the
\* issue has the users to assign as its assignees and its first item on the
\* board has the target option (no item of it has any when an identity is
\* unresolved): mentioning the issue again changes nothing.
C20_RepeatedMentionHarmless ==
    (pc \in {"forLoop", "done"} /\ eventInfo.defined) =>
        \A i \in 1..Len(eventInfo.linkedIssues) :
            LET n == eventInfo.linkedIssues[i].number
                done == {m \in MentionsOf(n) : m < loopIdx}
                items == ItemsOfIssue(n)
            IN i < loopIdx =>
                /\ assignees[n] = {eventInfo.toBeAssigned[j] :
                                      j \in 1..Len(eventInfo.toBeAssigned)}
                /\ Len(CallsFor("issues.removeAssignees", n))
                       = Cardinality(done)
                /\ Len(CallsFor("issues.addAssignees", n)) = Cardinality(done)
                /\ Len(CallsFor("getProjectInformation", n))
                       = Cardinality(done)
                /\ IF /\ status.statusFieldId # Undefined
                      /\ status.statusOptionId # Undefined
                      /\ items # {}
                   THEN /\ Len(CallsFor("updateProjectV2ItemFieldValue", n))
                               = Cardinality(done)
                        /\ \A k \in items :
                               board[paging.issues[k].id] =
                                   IF \A m \in items : k <= m
                                   THEN status.statusOptionId
                                   ELSE Undefined
                   ELSE /\ CallsFor("updateProjectV2ItemFieldValue", n) = <<>>
                        /\ \A k \in items :
                               board[paging.issues[k].id] = Undefined

\* C20 happens: issue 1, assigned to a and b, was mentioned twice; after the
\* second mention a is its assignee and two mutations were issued for it.
C20_Witness ==
    /\ pc = "done"
    /\ Len(eventInfo.linkedIssues) = 2
    /\ MentionsOf(1) = {1, 2}
    /\ eventInfo.linkedIssues[1].assignees = {<<"a">>, <<"b">>}
    /\ eventInfo.toBeAssigned = <<<<"a">>>>
    /\ assignees[1] = {<<"a">>}
    /\ Len(CallsFor("updateProjectV2ItemFieldValue", 1)) = 2

\* C19: a run on the payload of the run before it, that links the issues
\* the run before linked, leaves the assignees of every issue and the status
\* of every item as the run before left them.
C19_RunTwiceAsOnce ==
    (/\ pc = "done"
     /\ rerun.ran
     /\ [i \in 1..Len(eventInfo.linkedIssues) |->
            eventInfo.linkedIssues[i].number] = rerun.linked) =>
        /\ assignees = rerun.assignees
        /\ board = rerun.board

\* C19 happens: the second run found issue 1 assigned as the first run left
\* it, updated assignees and status again, and has ended.
C19_Witness ==
    /\ pc = "done"
    /\ rerun.ran
    /\ rerun.linked = <<1, 2>>
    /\ Len(eventInfo.linkedIssues) = 2
    /\ eventInfo.toBeAssigned = <<<<"a">>>>
    /\ eventInfo.linkedIssues[1].assignees = {<<"a">>}
    /\ Len(CallsFor("issues.addAssignees", 1)) = 1
    /\ Len(CallsFor("updateProjectV2ItemFieldValue", 1)) = 1
    /\ board[<<"I", 2>>] # Undefined

\* The positions of a text where a token starts: a '#' with a digit right
\* after it.
TokenStarts(text) ==
    {i \in 1..(Len(text) - 1) : text[i] = "#" /\ text[i + 1] \in Digits}

\* The digit string of the token that starts at position i: the digits that
\* follow the '#', up to the first character that is not a digit.
DigitString(text, i) ==
    LET j == CHOOSE m \in (i + 1)..Len(text) :
                 /\ \A q \in (i + 1)..m : text[q] \in Digits
                 /\ m = Len(text) \/ text[m + 1] \notin Digits
    IN SubSeq(text, i + 1, j)

\* The number a digit string denotes.
RECURSIVE Denotes(_)
Denotes(d) ==
    IF d = <<>> THEN 0
    ELSE DigitValue(Head(d)) * 10 ^ (Len(d) - 1) + Denotes(Tail(d))

\* C21: a token is a '#' immediately followed by one or more digits; once
\* fetchLinkedIssues has returned, there is one fetch for each token of the
\* body, in order, and the number fetched is the number the token's digit
\* string denotes: #1 and #1x fetch issue 1, #x1 fetches nothing.
C21_TokenIsHashAndDigits ==
    (ExtractionReturned /\ ~context.body.isNull) =>
        LET text == context.body.text
            starts == TokenStarts(text)
        IN /\ Len(FetchCalls) = Cardinality(starts)
           /\ \A i \in starts :
                  FetchCalls[1 + Cardinality({j \in starts : j < i})].arg
                      = Denotes(DigitString(text, i))
           /\ text \in {<<"#", "1">>, <<"#", "1", "x">>} =>
                  [k \in 1..Len(FetchCalls) |-> FetchCalls[k].arg] = <<1>>
           /\ text = <<"#", "x", "1">> => FetchCalls = <<>>

\* C21 happens: the body #1x gave one fetch, of issue 1.
C21_Witness ==
    /\ ExtractionReturned
    /\ ~context.body.isNull
    /\ context.body.text = <<"#", "1", "x">>
    /\ Len(FetchCalls) = 1
    /\ FetchCalls[1].arg = 1

\* The remote calls that may directly follow a remote call of a run.
MayFollow(op) ==
    CASE op = "issues.get" -> {"issues.get", "issues.removeAssignees"}
      [] op = "issues.removeAssignees" -> {"issues.addAssignees"}
      [] op = "issues.addAssignees" -> {"getProjectInformation"}
      [] op = "getProjectInformation" -> {"getIssues"}
      [] op = "getIssues" ->
             {"getIssues", "updateProjectV2ItemFieldValue",
              "issues.removeAssignees"}
      [] op = "updateProjectV2ItemFieldValue" -> {"issues.removeAssignees"}

\* How many of the first i calls open the processing of a linked issue.
IssuesOpened(i) ==
    Cardinality({j \in 1..i : calls[j].op = "issues.removeAssignees"})

\* C22: the calls of a run are issued one after the other, each after the
\* one before it has returned: the issue fetches come first; then, linked
\* issue by linked issue, remove-assignees, add-assignees, the schema query,
\* one or more item page queries and at most one status mutation; every
\* call of one issue precedes every call of the next, and a call that is
\* not a fetch is followed by another only when it has succeeded.
C22_CallsInOrder ==
    /\ \A i \in 1..(Len(calls) - 1) :
           /\ calls[i + 1].op \in MayFollow(calls[i].op)
           /\ calls[i].op # "issues.get" => calls[i].ok
    /\ calls # <<>> =>
           calls[1].op \in {"issues.get", "issues.removeAssignees"}
    /\ \A i \in 1..Len(calls) :
           calls[i].op # "issues.get" =>
               LET k == IssuesOpened(i)
               IN /\ eventInfo.defined
                  /\ k \in 1..Len(eventInfo.linkedIssues)
                  /\ k <= loopIdx
                  /\ calls[i].issue = eventInfo.linkedIssues[k].number

\* C22 happens: a run over two linked issues has ended with a status
\* mutation for each of them.
C22_Witness ==
    /\ pc = "done"
    /\ Len(eventInfo.linkedIssues) = 2
    /\ eventInfo.linkedIssues[1].number # eventInfo.linkedIssues[2].number
    /\ Len(SelectSeq(calls, IsMutation)) = 2
    /\ \E i \in 1..Len(calls) :
           /\ IsMutation(calls[i])
           /\ i < Len(calls)
           /\ calls[i + 1].op = "issues.removeAssignees"

\* The assignees of issue n after the first i calls of the run, each
\* successful call for it taking effect and staying in effect.
RECURSIVE AssigneesAfter(_, _, _)
AssigneesAfter(before, n, i) ==
    IF i = 0 THEN before
    ELSE LET c == calls[i]
             was == AssigneesAfter(before, n, i - 1)
         IN IF c.ok /\ c.issue = n /\ c.op = "issues.removeAssignees"
            THEN was \ c.arg
            ELSE IF c.ok /\ c.issue = n /\ c.op = "issues.addAssignees"
                 THEN was \cup Range(c.arg)
                 ELSE was

\* The statuses of the project items after the first i calls, likewise.
RECURSIVE BoardAfter(_, _)
BoardAfter(before, i) ==
    IF i = 0 THEN before
    ELSE LET c == calls[i]
             was == BoardAfter(before, i - 1)
         IN IF c.ok /\ IsMutation(c)
            THEN [was EXCEPT ![c.arg.itemId] = c.arg.singleSelectOptionId]
            ELSE was

\* The statuses of the project items when the run started.
BoardAtStart ==
    IF rerun.ran THEN rerun.board ELSE [i \in ItemIds |-> Undefined]

\* A remote call has failed while linked issue k was processed, and the run
\* with it.
FailedAt(k) ==
    /\ pc = "failed"
    /\ eventInfo.defined
    /\ loopIdx = k
    /\ k <= Len(eventInfo.linkedIssues)
    /\ calls # <<>>
    /\ ~Last(calls).ok

\* C23: nothing is rolled back. At every moment of a run, a failed one
\* included, the assignees of every linked issue are those it was fetched
\* with, changed by every successful assignee call for it, the statuses of
\* the items are those of the start, changed by every successful mutation,
\* and when a call fails at issue k the issues linked after k only are as
\* they were fetched.
C23_NoRollback ==
    eventInfo.defined =>
        /\ \A j \in 1..Len(eventInfo.linkedIssues) :
               LET n == eventInfo.linkedIssues[j].number
               IN assignees[n]
                      = AssigneesAfter(eventInfo.linkedIssues[j].assignees,
                                       n, Len(calls))
        /\ board = BoardAfter(BoardAtStart, Len(calls))
        /\ \A k \in 1..Len(eventInfo.linkedIssues) :
               FailedAt(k) =>
                   \A j \in (k + 1)..Len(eventInfo.linkedIssues) :
                       LET n == eventInfo.linkedIssues[j].number
                       IN (\A i \in 1..k :
                               eventInfo.linkedIssues[i].number # n) =>
                              assignees[n]
                                  = eventInfo.linkedIssues[j].assignees

\* C23 happens: the mutation for the second of two linked issues has failed;
\* the first issue keeps its new assignees and its new status, the second
\* its new assignees.
C23_Witness ==
    /\ FailedAt(2)
    /\ IsMutation(Last(calls))
    /\ eventInfo.linkedIssues[1].number = 1
    /\ eventInfo.linkedIssues[2].number = 2
    /\ assignees[1] # eventInfo.linkedIssues[1].assignees
    /\ assignees[2] # eventInfo.linkedIssues[2].assignees
    /\ assignees[1] = Range(eventInfo.toBeAssigned)
    /\ assignees[2] = Range(eventInfo.toBeAssigned)
    /\ \E i \in ItemIds : board[i] # Undefined

\* C24: every status mutation of a run is correlated. The configured project
\* number is that of the project the upstream holds, and against that
\* project: projectId is its id, fieldId the id of its first field named
\* Status, singleSelectOptionId the id of an option of that field whose name
\* contains the target label, and itemId the id of an item of the project
\* that wraps an issue with the number of the issue being processed.
C24_MutationCorrelated ==
    \A i \in 1..Len(calls) :
        IsMutation(calls[i]) =>
            LET in == calls[i].arg
            IN /\ ToNumber(inputs.projectNumber) = ProjectNumber
               /\ ~project.isNull
               /\ in.projectId = project.id
               /\ \E k \in 1..Len(project.fields) :
                      /\ project.fields[k].id = in.fieldId
                      /\ project.fields[k].name = StatusFieldName
                      /\ \A m \in 1..(k - 1) :
                             project.fields[m].name # StatusFieldName
                      /\ \E j \in 1..Len(project.fields[k].options) :
                             /\ project.fields[k].options[j].id
                                    = in.singleSelectOptionId
                             /\ Includes(project.fields[k].options[j].name,
                                         eventInfo.statusToBeSet)
               /\ \E m \in 1..Len(pages.items) :
                      /\ pages.items[m].id = in.itemId
                      /\ pages.items[m].kind = "Issue"
                      /\ pages.items[m].number = calls[i].issue
               /\ calls[i].issue
                      = eventInfo.linkedIssues[IssuesOpened(i)].number

\* C24 happens: a mutation for issue 2 went out with the ids of the project,
\* of its second field, of one of that field's options and of the third
\* item.
C24_Witness ==
    /\ calls # <<>>
    /\ IsMutation(Last(calls))
    /\ Last(calls).ok
    /\ Last(calls).issue = 2
    /\ Last(calls).arg.projectId = <<"P", ProjectNumber>>
    /\ Last(calls).arg.fieldId = <<"F", 2>>
    /\ Last(calls).arg.itemId = <<"I", 3>>
    /\ Last(calls).arg.singleSelectOptionId \in
           {project.fields[2].options[j].id :
                j \in 1..Len(project.fields[2].options)}

\* C25: the item whose status a run changes wraps the issue that was
\* fetched from the repository of the pull request, also when an item for an
\* issue of another repository with the same number comes earlier in the
\* list.
C25_ItemOfFetchedIssue ==
    \A i \in 1..Len(calls) :
        IsMutation(calls[i]) =>
            \E m \in 1..Len(pages.items) :
                /\ pages.items[m].id = calls[i].arg.itemId
                /\ pages.items[m].kind = "Issue"
                /\ pages.items[m].number = calls[i].issue
                /\ pages.items[m].repo = ThisRepository

\* The trigger is neither a request for review nor a submitted review.
IsOtherTrigger ==
    /\ ~(context.eventName = "pull_request"
             /\ context.action = "review_requested")
    /\ context.eventName # "pull_request_review"

\* C26: on a trigger that is neither pull_request/review_requested nor
\* pull_request_review the run issues no remote call, reports nothing, cannot
\* fail, links no issue and leaves the assignees and the item statuses as it
\* found them.
C26_OtherTriggerNoCall ==
    IsOtherTrigger =>
        /\ calls = <<>>
        /\ \A i \in 1..Len(log) : log[i].level \notin {"error", "uncaught"}
        /\ pc \in {"run", "extractEventInformation", "forLoop", "done"}
        /\ eventInfo.linkedIssues = <<>>
        /\ eventInfo.toBeAssigned = <<>>
        /\ assignees = BaseAssignees
        /\ board = BoardAtStart

\* C26 happens: a run on a push to a pull request that mentions issue 1 and
\* has a reviewer has ended.
C26_Witness ==
    /\ pc = "done"
    /\ context.eventName = "pull_request"
    /\ context.action = "synchronize"
    /\ context.body = Body(<<"#", "1">>)
    /\ context.requestedReviewers # <<>>
    /\ eventInfo.defined

\* The project's field named Status is a plain field: it has no option
\* list.
PlainStatusField ==
    /\ ~project.isNull
    /\ ToNumber(inputs.projectNumber) = ProjectNumber
    /\ \E k \in 1..Len(project.fields) :
           /\ project.fields[k].name = StatusFieldName
           /\ \A m \in 1..(k - 1) : project.fields[m].name # StatusFieldName
           /\ ~project.fields[k].hasOptions

\* C27: with a plain field named Status, updateIssueStatus raises no error:
\* a run fails on a failed remote call only, no mutation is issued, and a
\* run that has ended has logged the diagnostic once for every linked issue.
C27_PlainStatusFieldSkipped ==
    PlainStatusField =>
        /\ pc = "failed" => ~Last(calls).ok
        /\ \A i \in 1..Len(log) : log[i].msg # "TypeError"
        /\ \A i \in 1..Len(calls) : ~IsMutation(calls[i])
        /\ pc = "done" =>
               Len(SelectSeq(log, LAMBDA d : d.msg = SkippedMessage))
                   = Len(eventInfo.linkedIssues)

====
